---- MODULE Spec2Model ----
(***************************************************************************)
(* A model of redis_rate_limit: the RateLimit engine on top of a Redis     *)
(* key space.  The store holds, per key, an integer counter and a          *)
(* remaining time-to-live in milliseconds; RateLimit instances (limiters)  *)
(* call Redis one command at a time, and each command (the Lua script      *)
(* included) is atomic at the store.                                       *)
(*                                                                         *)
(* increment_usage, get_usage and has_been_reached issue one command and   *)
(* are one step each.  get_wait_time issues three commands and _reset one  *)
(* per key, so they are several steps, and the other limiters' calls and   *)
(* the passing of time interleave with them.  get_wait_time only reads, so *)
(* two calls of it cannot influence each other: one call in progress at a  *)
(* time shows every result a call can have.  A DEL of _reset shows         *)
(* get_wait_time nothing that the expiry of the key does not show it, so   *)
(* the model starts a _reset only while no get_wait_time is in progress,   *)
(* and the other way round.                                                *)
(*                                                                         *)
(* Time advances in ticks of expire / TicksPerWindow seconds.  Wait times  *)
(* are exact rationals [num, den] in seconds (Python 3 true division).     *)
(*                                                                         *)
(* Spec is one bucket used by all the limiters.  SpecLive is Spec with     *)
(* time that keeps passing.  SpecKeys builds the limiters for resource and *)
(* client names of several buckets.  SpecWith makes the requests through   *)
(* the with statement.  SpecMem sends each request to Redis and to the     *)
(* tests' MemoryBackend alike.                                             *)
(***************************************************************************)
EXTENDS Integers, Sequences, FiniteSets, TLC

\* ---------------------------------------------------------------- bounds
NumLimiters == 2
\* the max_requests argument the limiters are constructed with
MaxRequests == 2
\* the largest expire argument (seconds) a limiter is constructed with
MaxExpire == 2
TicksPerWindow == 2
\* increment_by ranges over -MaxNeg .. max_requests + MaxOver, and a window's
\* calls that return are counted up to max_requests + MaxOver
MaxNeg == 1
MaxOver == 1
\* the counter is kept within -MaxNeg .. max_requests + MaxOvershoot
MaxOvershoot == 2

Limiters == 1..NumLimiters
Resources == {"test"}
Clients == {"localhost"}
\* expire=None (the default) is modelled as 0: both are falsy in `expire or 1`
ExpireArgs == {0, MaxExpire}

VARIABLES
    max_requests,   \* RateLimit._max_requests (shared configuration)
    expire,         \* RateLimit._expire, seconds
    who,            \* who[l]: the resource and client limiter l is built for
    key,            \* key[l]: RateLimit._rate_limit_key of limiter l
    db,             \* Redis: key -> counter, for the keys that exist
    ttl,            \* Redis: key -> remaining milliseconds (NoExpiry: none set)
    win,            \* per existing key, the history of its current window
    last,           \* per key that expired and is still absent, its final counter
    gw,             \* the get_wait_time call in progress: its place and locals
    rs,             \* the _reset call in progress: its place, the keys to delete,
                    \* the keys it found and those incremented since
    ret,            \* the call that completed in the last step, if any
    entered,        \* what the last `with rate_limit as usage` bound usage to
    mem             \* tests' MemoryBackend.db: key -> RedisCounter

vars == <<max_requests, expire, who, key, db, ttl, win, last, gw, rs, ret, entered, mem>>

NoExpiry == -1
NoRet == [op |-> "none"]
\* what the name of a with statement holds: nothing yet, None, or an integer
Unbound == [is |-> "unbound", int |-> 0]
PyNone == [is |-> "None", int |-> 0]
PyInt(v) == [is |-> "int", int |-> v]
GwIdle == [pc |-> "idle", key |-> "", pttl |-> 0, usage |-> 0]
RsIdle == [pc |-> "idle", scan |-> {}, found |-> {}, touched |-> {}]

\* ------------------------------------------------------------ RateLimit.__init__

RateLimitKey(resource, client) == "rate_limit:" \o resource \o "_" \o client

ExpireOrDefault(e) == IF e = 0 THEN 1 ELSE e

\* ------------------------------------------------------------ Redis commands

\* RateLimit.get_usage(): int(self._redis.get(key) or 0), one GET
GetUsage(d, k) == IF k \in DOMAIN d THEN d[k] ELSE 0

\* PTTL: -2 when the key is absent, -1 when it has no expiry, else milliseconds
RedisPttl(d, t, k) ==
    IF k \notin DOMAIN d THEN -2
    ELSE IF t[k] = NoExpiry THEN -1
    ELSE t[k]

\* INCRBY creates an absent key at 0 (without expiry) and adds amount
ScriptCurrent(d, k, amount) == (IF k \in DOMAIN d THEN d[k] ELSE 0) + amount

\* a slip: the test of the Redis pattern the script is adapted from, which
\* counts by one
ScriptArmsExpire_CountsByOne(current, amount) == current = 1

\* the script's test for calling EXPIRE
ScriptArmsExpire(current, amount) == current = amount

\* INCREMENT_SCRIPT, run atomically by EVALSHA / EVAL
IncrementScript(d, t, k, exp, amount) ==
    LET current == ScriptCurrent(d, k, amount)
        d1 == (k :> current) @@ d
        t1 == IF k \in DOMAIN d THEN t ELSE (k :> NoExpiry) @@ t
        t2 == IF ScriptArmsExpire(current, amount)
              THEN [t1 EXCEPT ![k] = exp * 1000]
              ELSE t1
    IN [db |-> d1, ttl |-> t2, current |-> current,
        armed |-> ScriptArmsExpire(current, amount)]

\* a slip: a DEL that removes nothing
RedisDelete_KeepsKey(f, k) == f

\* DEL
RedisDelete(f, k) == [x \in DOMAIN f \ {k} |-> f[x]]

\* the time of one tick
TickMs == (expire * 1000) \div TicksPerWindow

\* ------------------------------------------------------------ tests' MemoryBackend

\* A RedisCounter is its counter and the milliseconds left of ts + expire - now.
\* RedisCounter.ttl: max(0, (ts + expire - now) * 1000)
CounterTtl(c) == IF c.left > 0 THEN c.left ELSE 0

\* RedisCounter.expired
CounterExpired(c) == CounterTtl(c) = 0

\* MemoryBackend._get(): None for a missing or an expired counter
MemoryLive(m, k) == k \in DOMAIN m /\ ~CounterExpired(m[k])

\* MemoryBackend._get() deletes the counter it finds expired
Memory_get(m, k) ==
    IF k \in DOMAIN m /\ CounterExpired(m[k])
    THEN [x \in DOMAIN m \ {k} |-> m[x]]
    ELSE m

\* MemoryBackend.get(): the counter, or None (0 after `or 0`)
MemoryGet(m, k) == IF MemoryLive(m, k) THEN m[k].counter ELSE 0

\* MemoryBackend.incr(): a new RedisCounter for a missing or expired one, then
\* RedisCounter.incr(): counter += 1 and ts = now
MemoryIncr(m, k, exp) ==
    LET counter == IF MemoryLive(m, k) THEN m[k].counter ELSE 0
    IN (k :> [counter |-> counter + 1, left |-> exp * 1000]) @@ Memory_get(m, k)

\* now advances by tickms
MemoryTick(m) == [k \in DOMAIN m |-> [m[k] EXCEPT !.left = CounterTtl(m[k]) - TickMs]]

\* ------------------------------------------------------------ RateLimit

\* a slip: the guard lets max_requests + 1 through
TooHigh_OffByOne(increment_by, max) == increment_by > max + 1

\* the guard of increment_usage on its argument
TooHigh(increment_by, max) == increment_by > max

\* a slip: raises on reaching the limit
OverLimit_AtLimit(current_usage, max) == current_usage >= max

\* a slip: lets one request too many through
OverLimit_OffByOne(current_usage, max) == current_usage > max + 1

\* the test of increment_usage on the script's reply
OverLimit(current_usage, max) == current_usage > max

\* RateLimit.has_been_reached(), one GET
HasBeenReached(d, k, max) == GetUsage(d, k) >= max

\* usage / max_requests etc. are Python 3 true divisions: exact rationals
Rat(num, den) == IF den < 0 THEN [num |-> -num, den |-> -den] ELSE [num |-> num, den |-> den]

\* ttl = ttl / 1000.0 if ttl else float(self._expire), kept in milliseconds
TtlOrDefault(reply, exp) == IF reply # 0 THEN reply ELSE exp * 1000

\* a slip: get_wait_time without its branch for usage == 0
WaitTime_NoZeroBranch(ttlms, usage, reached, exp, max) ==
    IF reached
    THEN [kind |-> "limit",
          value |-> Rat(1000 * exp * usage - (1000 * exp - ttlms) * max, 1000 * max)]
    ELSE IF max - usage = 0
    THEN [kind |-> "ZeroDivisionError", value |-> Rat(0, 1)]
    ELSE [kind |-> "below", value |-> Rat(ttlms, 1000 * (max - usage))]

\* a slip: usage / max_requests as the floor division of Python 2
WaitTime_FloorDivision(ttlms, usage, reached, exp, max) ==
    IF reached
    THEN [kind |-> "limit",
          value |-> Rat(1000 * exp * (usage \div max) - (1000 * exp - ttlms), 1000)]
    ELSE IF usage = 0
    THEN [kind |-> "zero", value |-> Rat(0, 1)]
    ELSE IF max - usage = 0
    THEN [kind |-> "ZeroDivisionError", value |-> Rat(0, 1)]
    ELSE [kind |-> "below", value |-> Rat(ttlms, 1000 * (max - usage))]

\* the three branches of get_wait_time, from the values it has read:
\* ttlms (milliseconds), usage, and the outcome of has_been_reached()
WaitTime(ttlms, usage, reached, exp, max) ==
    IF reached
    THEN \* expire * (usage / max) - (expire - ttl)
         [kind |-> "limit",
          value |-> Rat(1000 * exp * usage - (1000 * exp - ttlms) * max, 1000 * max)]
    ELSE IF usage = 0
    THEN [kind |-> "zero", value |-> Rat(0, 1)]
    ELSE IF max - usage = 0
    THEN [kind |-> "ZeroDivisionError", value |-> Rat(0, 1)]
    ELSE [kind |-> "below", value |-> Rat(ttlms, 1000 * (max - usage))]

\* ------------------------------------------------------------ window history

NewWindow == [sum |-> 0, accepted |-> 0, hit |-> FALSE]

WinOf(w, k) == IF k \in DOMAIN w THEN w[k] ELSE NewWindow

LastOf(f, k) == IF k \in DOMAIN f THEN f[k] ELSE 0

CounterOk(c) == c >= -MaxNeg /\ c <= max_requests + MaxOvershoot

Amounts == (-MaxNeg)..(max_requests + MaxOver)

\* ------------------------------------------------------------ initial state

Init ==
    /\ max_requests = MaxRequests
    /\ expire \in {ExpireOrDefault(e) : e \in ExpireArgs}
    /\ who \in [Limiters -> [resource : Resources, client : Clients]]
    /\ key = [l \in Limiters |-> RateLimitKey(who[l].resource, who[l].client)]
    /\ db = <<>>
    /\ ttl = <<>>
    /\ win = <<>>
    /\ last = <<>>
    /\ gw = GwIdle
    /\ rs = RsIdle
    /\ ret = NoRet
    /\ entered = Unbound
    /\ mem = <<>>

\* ------------------------------------------------------------ actions

\* The body of RateLimit.increment_usage(increment_by).  EVALSHA and, after
\* NoScriptError, EVAL run the same script: one atomic command either way.
IncrementUsageBody(l, increment_by) ==
    LET k == key[l]
        r == IncrementScript(db, ttl, k, expire, increment_by)
        w == WinOf(win, k)
        raised == OverLimit(r.current, max_requests)
        w1 == [sum |-> w.sum + increment_by,
               accepted |-> IF raised \/ w.accepted >= max_requests + MaxOver
                            THEN w.accepted ELSE w.accepted + 1,
               hit |-> w.hit \/ r.current >= max_requests]
    IN /\ IF TooHigh(increment_by, max_requests)
          THEN /\ ret' = [op |-> "increment_usage", who |-> who[l], armed |-> FALSE,
                          amount |-> increment_by, outcome |-> "InitialValueTooHigh",
                          value |-> 0, existed |-> k \in DOMAIN db,
                          before |-> GetUsage(db, k), after |-> GetUsage(db, k),
                          ttlBefore |-> RedisPttl(db, ttl, k),
                          ttlAfter |-> RedisPttl(db, ttl, k),
                          sum |-> w.sum, accepted |-> w.accepted, hitBefore |-> w.hit,
                          afterExpiry |-> k \in DOMAIN last, prev |-> LastOf(last, k)]
               /\ UNCHANGED <<db, ttl, win, last, rs>>
          ELSE /\ CounterOk(r.current)
               /\ db' = r.db
               /\ ttl' = r.ttl
               /\ win' = (k :> w1) @@ win
               /\ last' = RedisDelete(last, k)
               /\ rs' = IF rs.pc = "delete"
                        THEN [rs EXCEPT !.touched = @ \cup {k}]
                        ELSE rs
               /\ ret' = [op |-> "increment_usage", who |-> who[l], armed |-> r.armed,
                          amount |-> increment_by,
                          outcome |-> IF raised THEN "TooManyRequests" ELSE "ok",
                          value |-> r.current, existed |-> k \in DOMAIN db,
                          before |-> GetUsage(db, k), after |-> GetUsage(r.db, k),
                          ttlBefore |-> RedisPttl(db, ttl, k),
                          ttlAfter |-> RedisPttl(r.db, r.ttl, k),
                          sum |-> w1.sum, accepted |-> w1.accepted, hitBefore |-> w.hit,
                          afterExpiry |-> k \in DOMAIN last, prev |-> LastOf(last, k)]
       /\ UNCHANGED <<max_requests, expire, who, key, gw>>

\* RateLimit.increment_usage(increment_by), called directly
IncrementUsage(l, increment_by) ==
    /\ IncrementUsageBody(l, increment_by)
    /\ UNCHANGED <<entered, mem>>

\* RateLimit.__enter__() has no return statement: it returns None
EnterReturn(current_usage) == PyNone

\* `with rate_limit as usage:` calls __enter__, which calls increment_usage();
\* the name is bound to what __enter__ returns, unless the call raised
Enter(l) ==
    /\ IncrementUsageBody(l, 1)
    /\ entered' = IF ret'.outcome = "ok" THEN EnterReturn(ret'.value) ELSE entered
    /\ UNCHANGED mem

\* RateLimit.get_wait_time(), first command: ttl = self._redis.pttl(key)
GetWaitTimePttl(l) ==
    /\ gw.pc = "idle"
    /\ rs.pc = "idle"
    /\ gw' = [pc |-> "usage", key |-> key[l],
              pttl |-> RedisPttl(db, ttl, key[l]), usage |-> 0]
    /\ ret' = NoRet
    /\ UNCHANGED <<max_requests, expire, who, key, entered, mem, db, ttl, win, last, rs>>

\* RateLimit.get_wait_time(), second command: usage = self.get_usage()
GetWaitTimeUsage ==
    /\ gw.pc = "usage"
    /\ gw' = [gw EXCEPT !.pc = "reached", !.usage = GetUsage(db, gw.key)]
    /\ ret' = NoRet
    /\ UNCHANGED <<max_requests, expire, who, key, entered, mem, db, ttl, win, last, rs>>

\* RateLimit.get_wait_time(), third command (inside has_been_reached) and return
GetWaitTimeReturn ==
    LET reached == HasBeenReached(db, gw.key, max_requests)
        ttlms == TtlOrDefault(gw.pttl, expire)
        wt == WaitTime(ttlms, gw.usage, reached, expire, max_requests)
    IN /\ gw.pc = "reached"
       /\ ret' = [op |-> "get_wait_time", kind |-> wt.kind,
                  value |-> wt.value, pttl |-> gw.pttl, usage |-> gw.usage,
                  usage2 |-> GetUsage(db, gw.key), reached |-> reached,
                  afterExpiry |-> gw.key \in DOMAIN last,
                  ttlUsed |-> ttlms, pttlNow |-> RedisPttl(db, ttl, gw.key)]
       /\ gw' = GwIdle
       /\ UNCHANGED <<max_requests, expire, who, key, entered, mem, db, ttl, win, last, rs>>

\* RateLimit._reset(): SCAN for the keys matching rate_limit:*
ResetScan(l) ==
    /\ rs.pc = "idle"
    /\ gw.pc = "idle"
    /\ rs' = [pc |-> "delete", scan |-> DOMAIN db, found |-> DOMAIN db, touched |-> {}]
    /\ ret' = NoRet
    /\ UNCHANGED <<max_requests, expire, who, key, entered, mem, db, ttl, win, last, gw>>

\* RateLimit._reset(): DEL of one of the scanned keys
ResetDelete ==
    /\ rs.pc = "delete"
    /\ \E k \in rs.scan :
          /\ db' = RedisDelete(db, k)
          /\ ttl' = RedisDelete(ttl, k)
          /\ win' = RedisDelete(win, k)
          /\ UNCHANGED last
          /\ rs' = [rs EXCEPT !.scan = @ \ {k}]
    /\ ret' = NoRet
    /\ UNCHANGED <<max_requests, expire, who, key, entered, mem, gw>>

\* RateLimit._reset(): the loop is over
ResetReturn ==
    /\ rs.pc = "delete"
    /\ rs.scan = {}
    /\ rs' = RsIdle
    /\ ret' = [op |-> "reset", found |-> rs.found, touched |-> rs.touched]
    /\ UNCHANGED <<max_requests, expire, who, key, entered, mem, db, ttl, win, last, gw>>

\* one tick of time passes; Redis removes the keys whose time-to-live runs out,
\* and the counters of the in-memory store are one tick older
Tick ==
    LET live == {k \in DOMAIN db : ttl[k] = NoExpiry \/ ttl[k] > TickMs}
    IN /\ DOMAIN db # {}
       /\ db' = [k \in live |-> db[k]]
       /\ ttl' = [k \in live |-> IF ttl[k] = NoExpiry THEN NoExpiry ELSE ttl[k] - TickMs]
       /\ win' = [k \in live |-> win[k]]
       /\ last' = [k \in DOMAIN last \cup (DOMAIN db \ live) |->
                      IF k \in DOMAIN db THEN db[k] ELSE last[k]]
       /\ mem' = MemoryTick(mem)
       /\ ret' = NoRet
       /\ UNCHANGED <<max_requests, expire, who, key, entered, gw, rs>>

Next ==
    \/ \E l \in Limiters : \E a \in Amounts : IncrementUsage(l, a)
    \/ \E l \in Limiters : GetWaitTimePttl(l)
    \/ GetWaitTimeUsage
    \/ GetWaitTimeReturn
    \/ \E l \in Limiters : ResetScan(l)
    \/ ResetDelete
    \/ ResetReturn
    \/ Tick

Spec == Init /\ [][Next]_vars

\* the same program with time that keeps passing: Redis counts a key's
\* time-to-live down whatever the clients do
SpecLive == Init /\ [][Next]_vars /\ WF_vars(Tick)

\* ------------------------------------------------------------ both stores

\* one request sent to both stores: the script with amount 1 through
\* increment_usage(), and MemoryBackend.incr() with the same key and expire
IncrBoth(l) ==
    /\ IncrementUsageBody(l, 1)
    /\ CounterOk(MemoryGet(mem, key[l]) + 1)
    /\ mem' = MemoryIncr(mem, key[l], expire)
    /\ UNCHANGED entered

\* the counter read from both stores: GET, and MemoryBackend.get()
GetBoth(l) ==
    /\ mem' = Memory_get(mem, key[l])
    /\ ret' = [op |-> "get", redis |-> GetUsage(db, key[l]),
               memory |-> MemoryGet(mem, key[l])]
    /\ UNCHANGED <<max_requests, expire, who, key, entered, db, ttl, win, last, gw, rs>>

NextMem ==
    \/ \E l \in Limiters : IncrBoth(l)
    \/ \E l \in Limiters : GetBoth(l)
    \/ Tick

SpecMem == Init /\ [][NextMem]_vars

\* ------------------------------------------------------------ with statement

\* requests made by entering the limiter as a context manager
NextWith ==
    \/ \E l \in Limiters : Enter(l)
    \/ \E l \in Limiters : ResetScan(l)
    \/ ResetDelete
    \/ ResetReturn
    \/ Tick

SpecWith == Init /\ [][NextWith]_vars

\* ------------------------------------------------------------ several buckets

\* resource and client names with and without the separator of the key format
KeyResources == {"a", "a_b"}
KeyClients == {"c", "b_c"}

\* limiters built for any resource and client with the default expire, on an
\* empty store
InitKeys ==
    /\ max_requests = MaxRequests
    /\ expire = ExpireOrDefault(0)
    /\ who \in [Limiters -> [resource : KeyResources, client : KeyClients]]
    /\ key = [l \in Limiters |-> RateLimitKey(who[l].resource, who[l].client)]
    /\ db = <<>>
    /\ ttl = <<>>
    /\ win = <<>>
    /\ last = <<>>
    /\ gw = GwIdle
    /\ rs = RsIdle
    /\ ret = NoRet
    /\ entered = Unbound
    /\ mem = <<>>

\* requests through any limiter and resets, within one window
NextKeys ==
    \/ \E l \in Limiters : IncrementUsage(l, 1)
    \/ \E l \in Limiters : ResetScan(l)
    \/ ResetDelete
    \/ ResetReturn

SpecKeys == InitKeys /\ [][NextKeys]_vars

\* ------------------------------------------------------------ claims

IsIncrement == ret.op = "increment_usage"

ValidAmount(a) == a >= 1 /\ a <= max_requests

\* a/b = c/d for two rationals with positive denominators
RatEq(a, b) == a.num * b.den = b.num * a.den

\* C1: within one window, a call with a valid amount that leaves the running
\* sum of the window's amounts at or below max_requests returns that sum
\* without raising, and get_usage() is the running sum after it and for as
\* long as the window lasts.
C1_RunningSumWithinLimit ==
    /\ \A k \in DOMAIN db : GetUsage(db, k) = win[k].sum
    /\ (IsIncrement /\ ValidAmount(ret.amount) /\ ret.sum <= max_requests)
          => /\ ret.outcome = "ok"
             /\ ret.value = ret.sum
             /\ ret.after = ret.sum

\* a later call of a window brings the sum exactly to max_requests and returns
C1_Witness ==
    /\ IsIncrement /\ ret.outcome = "ok" /\ ret.existed
    /\ ret.before >= 1 /\ ret.amount >= 1
    /\ ret.sum = max_requests /\ ret.after = max_requests

\* C2: the first call with a valid amount that brings the running sum of the
\* window above max_requests raises TooManyRequests, and the increment stays:
\* get_usage() afterwards is the usage before plus the amount.
C2_FirstOvershootRaisesAndCommits ==
    (IsIncrement /\ ValidAmount(ret.amount)
        /\ ret.sum > max_requests /\ ret.sum - ret.amount <= max_requests)
       => /\ ret.outcome = "TooManyRequests"
          /\ ret.after = ret.before + ret.amount
          /\ ret.after = ret.sum
          /\ ret.value = ret.sum

\* a call raised on the first overshoot of a window that had usage before it
C2_Witness ==
    /\ IsIncrement /\ ret.outcome = "TooManyRequests"
    /\ ret.before >= 1 /\ ret.before <= max_requests
    /\ ret.after = ret.before + ret.amount /\ ret.after > max_requests

\* C3: in any interleaving of the limiters' calls, at most max_requests
\* increment_usage calls return without raising within one window of a bucket.
C3_AtMostMaxRequestsAccepted ==
    \A k \in DOMAIN win : win[k].accepted <= max_requests

\* C4: once the counter of a window has reached max_requests, every further
\* increment_usage with a valid amount raises TooManyRequests (and still adds
\* the amount), until the bucket expires or is reset.
C4_RejectedOnceReached ==
    (IsIncrement /\ ValidAmount(ret.amount) /\ ret.hitBefore)
       => /\ ret.outcome = "TooManyRequests"
          /\ ret.after = ret.before + ret.amount

\* C5: the first increment_usage with a valid amount after a bucket expired
\* succeeds, get_usage() afterwards is that amount alone, whatever the counter
\* of the expired window was, and the key expires after window_seconds again.
C5_FreshWindowAfterExpiry ==
    (IsIncrement /\ ValidAmount(ret.amount) /\ ret.afterExpiry)
       => /\ ~ret.existed
          /\ ret.outcome = "ok"
          /\ ret.value = ret.amount
          /\ ret.after = ret.amount
          /\ ret.ttlAfter = expire * 1000

\* a window that had gone over the limit expired, and the next call succeeded
C5_Witness ==
    /\ IsIncrement /\ ret.afterExpiry /\ ret.prev > max_requests
    /\ ret.outcome = "ok" /\ ret.after = ret.amount /\ ret.amount >= 1

\* C6: no increment applied to a bucket that exists in the current window
\* sets or extends its expiry: the time-to-live is armed once per window.
C6_TtlArmedOncePerWindow ==
    (IsIncrement /\ ret.existed /\ ret.outcome # "InitialValueTooHigh")
       => ret.ttlAfter = ret.ttlBefore

\* C7: increment_usage(0) and increment_usage(negative) fail with an
\* invalid-increment error and leave the store as it was.
C7_NonPositiveAmountRejected ==
    (IsIncrement /\ ret.amount <= 0)
       => /\ ret.outcome = "InvalidIncrement"
          /\ ret.after = ret.before
          /\ ret.ttlAfter = ret.ttlBefore

C9_AbsentBucketWaitsOneSlot ==
    (ret.op = "get_wait_time" /\ ret.pttl = -2 /\ ret.usage = 0 /\ ret.usage2 = 0)
       => RatEq(ret.value, [num |-> expire, den |-> max_requests])

Uninterleaved ==
    /\ ret.op = "get_wait_time"
    /\ ret.usage2 = ret.usage
    /\ ret.pttlNow = ret.pttl

C12_LimitReachedWaitsRemainingTtl ==
    (Uninterleaved /\ ret.usage >= max_requests)
       => RatEq(ret.value, Rat(ret.pttl, 1000))

C14_DistinctPairsDoNotInterfere ==
    [][\A l \in Limiters :
          (ret'.op = "increment_usage" /\ who[l] # ret'.who)
             => GetUsage(db', key[l]) = GetUsage(db, key[l])]_vars

\* C15: entering the limiter in a with statement makes one increment_usage(1)
\* and binds the name after `as` to the counter after that increment.
C15_WithBindsUsage ==
    (IsIncrement /\ ret.outcome = "ok")
       => /\ ret.amount = 1
          /\ ret.after = ret.before + 1
          /\ entered = PyInt(ret.value)

\* C16: of the increment_usage calls that race on a bucket from its absence on,
\* none is lost (the counter after each is the sum of the amounts so far) and
\* exactly the one that creates the key arms the TTL.
C16_OneCreatorArmsTtl ==
    (IsIncrement /\ ret.outcome # "InitialValueTooHigh")
       => /\ ret.after = ret.sum
          /\ ret.armed <=> ~ret.existed

\* C17: when the PTTL read of get_wait_time() is a sentinel (-2 key absent,
\* -1 no expiry) and its arithmetic uses the ttl, the ttl used is expire.
C17_SentinelReplacedByExpire ==
    (ret.op = "get_wait_time" /\ ret.pttl < 0 /\ ret.kind \in {"limit", "below"})
       => ret.ttlUsed = expire * 1000

\* C18: get_wait_time() never fails with a division by zero.
C18_NoDivisionByZero ==
    ret.op = "get_wait_time" => ret.kind # "ZeroDivisionError"

\* C19: a bucket that is present is eventually absent again, whatever calls
\* arrive while time passes.
C19_ActiveBucketExpires ==
    (DOMAIN db # {}) ~> (DOMAIN db = {})

\* C20: after the same increments and time steps, the in-memory store and
\* Redis agree on whether the bucket is present and on its counter.
C20_MemoryBackendMatchesRedis ==
    \A l \in Limiters :
       /\ MemoryLive(mem, key[l]) <=> key[l] \in DOMAIN db
       /\ MemoryGet(mem, key[l]) = GetUsage(db, key[l])

====
